---- MODULE Spec2Model ----
(***************************************************************************)
(* Model of the vprompt PromptModel (vibe-prompt.go): the multi-line line  *)
(* buffer, cursor arithmetic, autocomplete popup, history browsing and     *)
(* submission, driven by bubbletea key events.                             *)
(*                                                                         *)
(* A Go string is a sequence of bytes.  A byte is written as a token:      *)
(* "a" " " ";" are ASCII, "NL" is '\n', "01" is a control character,       *)
(* "C3" "A9" are the two bytes of U+00E9, "EF" "BF" "BD" the three bytes   *)
(* of U+FFFD.  A rune is written as the byte sequence of its encoding.     *)
(***************************************************************************)
EXTENDS Integers, Sequences, FiniteSets, TLC

\* ---------------------------------------------------------------- bounds
\* lines in the buffer, bytes in the buffer, history entries, bytes in a
\* history entry
MaxLines == 3
MaxBytes == 2
MaxHist == 2
MaxEntryLen == 2
\* bytes in the buffer for the sessions that never submit or that type
\* multi-byte text, and history entries for the latter
MaxBytesWide == 3
MaxHistUtf8 == 1

\* ------------------------------------------------------- Go strings, UTF-8
ContBytes == {"A9", "BF", "BD"}
AsciiBytes == {"a", " ", ";", "NL", "01"}
RuneError == <<"EF", "BF", "BD">>
eAcute == <<"C3", "A9">>

Min(a, b) == IF a < b THEN a ELSE b
Max(a, b) == IF a > b THEN a ELSE b

\* s[i:j] of Go, on 0-based offsets (the caller checks the range)
Slice(s, i, j) == SubSeq(s, i + 1, j)

\* []rune(s): decode UTF-8; every byte that starts no valid encoding
\* decodes to U+FFFD and consumes one byte
RECURSIVE RunesOf(_)
RunesOf(s) ==
    IF s = <<>> THEN <<>>
    ELSE IF Head(s) = "C3" /\ Len(s) >= 2 /\ s[2] \in ContBytes
        THEN <<SubSeq(s, 1, 2)>> \o RunesOf(SubSeq(s, 3, Len(s)))
    ELSE IF Head(s) = "EF" /\ Len(s) >= 3 /\ s[2] \in ContBytes
                                          /\ s[3] \in ContBytes
        THEN <<SubSeq(s, 1, 3)>> \o RunesOf(SubSeq(s, 4, Len(s)))
    ELSE IF Head(s) \in AsciiBytes
        THEN <<<<Head(s)>>>> \o RunesOf(Tail(s))
    ELSE <<RuneError>> \o RunesOf(Tail(s))

\* string(runes): encode each rune
RECURSIVE StringOf(_)
StringOf(rs) == IF rs = <<>> THEN <<>> ELSE Head(rs) \o StringOf(Tail(rs))

IsSpaceByte(b) == b \in {" ", "NL"}

\* strings.TrimSpace
RECURSIVE TrimLeft(_)
TrimLeft(s) ==
    IF s # <<>> /\ IsSpaceByte(Head(s)) THEN TrimLeft(Tail(s)) ELSE s

RECURSIVE TrimRight(_)
TrimRight(s) ==
    IF s # <<>> /\ IsSpaceByte(s[Len(s)])
    THEN TrimRight(SubSeq(s, 1, Len(s) - 1)) ELSE s

TrimSpace(s) == TrimRight(TrimLeft(s))

\* strings.Join(ls, "\n")
RECURSIVE Join(_)
Join(ls) ==
    IF ls = <<>> THEN <<>>
    ELSE IF Len(ls) = 1 THEN ls[1]
    ELSE ls[1] \o <<"NL">> \o Join(Tail(ls))

\* strings.Split(s, "\n")
RECURSIVE SplitAcc(_, _)
SplitAcc(s, cur) ==
    IF s = <<>> THEN <<cur>>
    ELSE IF Head(s) = "NL" THEN <<cur>> \o SplitAcc(Tail(s), <<>>)
    ELSE SplitAcc(Tail(s), Append(cur, Head(s)))

Split(s) == SplitAcc(s, <<>>)

RECURSIVE TotalBytes(_)
TotalBytes(ls) ==
    IF ls = <<>> THEN 0 ELSE Len(Head(ls)) + TotalBytes(Tail(ls))

\* ------------------------------------------------------------ configuration
PopupMaxHeight == 2

DefaultIsComplete(input) ==
    LET trimmedInput == TrimSpace(input)
    IN  trimmedInput # <<>> /\ trimmedInput[Len(trimmedInput)] = ";"

\* letters, digits, '_' and '.'; of the runes the byte tokens can encode,
\* "a", U+00E9/U+00FD/U+00FF and the three-byte runes outside U+FFC0-U+FFFF
\* are letters
DefaultIsWordChar(r) ==
    \/ r = <<"a">>
    \/ Len(r) = 2
    \/ Len(r) = 3 /\ r[2] # "BF"

\* what the configured ExecuteFn returns (opaque to the prompt)
ExecuteFnResult(input) == "out"

\* the lists the configured AutoCompleteFn may return
Sugg(t) == [Text |-> t, Description |-> <<>>]
SuggestionLists ==
    { <<>>,
      <<Sugg(<<"a", "a">>)>>,
      <<Sugg(<<"a", "a">>), Sugg(<<"a">>), Sugg(eAcute)>> }

\* a suggestion whose text ends in a newline (applyAutocomplete inserts the
\* Text of a suggestion as it is); returned in the session "newline"
MultiLineSuggestions == { <<Sugg(<<"a", "NL">>)>> }

\* The sessions explored.  A session fixes the rune slices its KeyRunes
\* messages carry and the PromptConfig the model was built with
\* (IsCompleteFn: DefaultIsComplete, or a predicate that accepts or rejects
\* every input; ExecuteFn, AutoCompleteFn: whether the callback is set).
Envs == {"ascii", "wide", "utf8", "newline"}

TypedRunes(e) ==
    IF e = "utf8" THEN { <<<<"a">>>>, <<eAcute>> }
    ELSE IF e = "newline" THEN { <<<<"a">>>> }
    ELSE { <<<<"a">>>>, <<<<";">>>>, <<<<"01">>>> }

Config(c, x, a) == [IsCompleteFn |-> c, ExecuteFn |-> x, AutoCompleteFn |-> a]

Configs(e) ==
    IF e = "ascii"
    THEN { Config("Default", TRUE, TRUE), Config("Default", FALSE, FALSE) }
    ELSE IF e = "wide" THEN { Config("Never", TRUE, TRUE) }
    ELSE IF e = "newline" THEN { Config("Always", TRUE, TRUE) }
    ELSE { Config("Default", TRUE, TRUE), Config("Always", TRUE, TRUE),
           Config("Always", FALSE, FALSE) }

\* the lists the AutoCompleteFn of a session may return
SuggestionListsOf(e) ==
    IF e = "newline" THEN {<<>>} \cup MultiLineSuggestions
    ELSE SuggestionLists

MaxBytesOf(e) == IF e = "ascii" THEN MaxBytes ELSE MaxBytesWide
MaxHistOf(e) == IF e \in {"utf8", "newline"} THEN MaxHistUtf8 ELSE MaxHist

\* -------------------------------------------------------------------- state
VARIABLES env, config, lines, cursorRow, cursorCol, history, historyIndex,
          suggestions, showPopup, selectedSuggestionIndex,
          lastSuggestedWord, popupScrollOffset, lastOutput,
          execCalls, acCalls, panicked

vars == <<env, config, lines, cursorRow, cursorCol, history, historyIndex,
          suggestions, showPopup, selectedSuggestionIndex,
          lastSuggestedWord, popupScrollOffset, lastOutput,
          execCalls, acCalls, panicked>>

\* the PromptModel as one value, as the methods see it through *m;
\* execCalls and acCalls list the arguments the ExecuteFn and the
\* AutoCompleteFn were called with during the current key event
M == [ lines |-> lines, cursorRow |-> cursorRow, cursorCol |-> cursorCol,
       history |-> history, historyIndex |-> historyIndex,
       suggestions |-> suggestions, showPopup |-> showPopup,
       selectedSuggestionIndex |-> selectedSuggestionIndex,
       lastSuggestedWord |-> lastSuggestedWord,
       popupScrollOffset |-> popupScrollOffset, lastOutput |-> lastOutput,
       execCalls |-> execCalls, acCalls |-> acCalls, panicked |-> panicked ]

\* a Go run-time panic (slice or index out of range) ends the program
Panic(m) == [m EXCEPT !.panicked = TRUE]

IsCompleteFn(input) ==
    IF config.IsCompleteFn = "Default" THEN DefaultIsComplete(input)
    ELSE config.IsCompleteFn = "Always"

IsWordCharFn(r) == DefaultIsWordChar(r)

\* ------------------------------------------------------------- autocomplete
clearAutocomplete(m) ==
    IF m.panicked THEN m
    ELSE [m EXCEPT !.suggestions = <<>>, !.showPopup = FALSE,
                   !.selectedSuggestionIndex = 0,
                   !.lastSuggestedWord = <<>>, !.popupScrollOffset = 0]

\* the column where the run of word characters ending at column start begins
ScanLeftOnce(runes, start) ==
    IF start > 0 /\ IsWordCharFn(runes[start]) THEN start - 1 ELSE start

RECURSIVE ScanLeft(_, _)
ScanLeft(runes, start) ==
    IF start > 0 /\ IsWordCharFn(runes[start]) THEN ScanLeft(runes, start - 1)
    ELSE start

currentWordFragment(m) ==
    IF m.cursorRow >= Len(m.lines) THEN <<>>
    ELSE IF m.cursorCol = 0 THEN <<>>
    ELSE LET lineRunes == RunesOf(m.lines[m.cursorRow + 1])
         IN  IF m.cursorCol > Len(lineRunes) THEN <<>>
             ELSE LET start == ScanLeft(lineRunes, m.cursorCol)
                  IN  IF start < m.cursorCol /\ m.cursorCol > 0
                         /\ IsWordCharFn(lineRunes[m.cursorCol])
                      THEN StringOf(Slice(lineRunes, start, m.cursorCol))
                      ELSE <<>>

getTextBeforeCursor(m) ==
    IF m.cursorRow < 0 \/ m.cursorRow >= Len(m.lines) THEN <<>>
    ELSE LET RECURSIVE Above(_)
             Above(i) == IF i = 0 THEN <<>>
                         ELSE Above(i - 1) \o m.lines[i] \o <<"NL">>
             runes == RunesOf(m.lines[m.cursorRow + 1])
             col == Min(m.cursorCol, Len(runes))
         IN  Above(m.cursorRow)
             \o (IF m.cursorCol > 0 THEN StringOf(Slice(runes, 0, col))
                 ELSE <<>>)

\* the branch of updateAutocomplete taken when the fragment differs from
\* lastSuggestedWord; result is what the AutoCompleteFn returns if it is
\* set, and acCalls logs the call's arguments with the list returned
regenerateSuggestionsKeepsSelection(m, word, result) ==
    LET called == config.AutoCompleteFn
        sugg == IF called THEN result ELSE <<>>
    IN  [m EXCEPT
           !.popupScrollOffset = 0,
           !.acCalls = IF called
                       THEN Append(@, [textBeforeCursor |->
                                           getTextBeforeCursor(m),
                                       wordFragment |-> word,
                                       returned |-> result])
                       ELSE @,
           !.suggestions = sugg,
           !.showPopup = Len(sugg) > 0,
           !.lastSuggestedWord = word]

regenerateSuggestions(m, word, result) ==
    LET called == config.AutoCompleteFn
        sugg == IF called THEN result ELSE <<>>
    IN  [m EXCEPT
           !.selectedSuggestionIndex = 0,
           !.popupScrollOffset = 0,
           !.acCalls = IF called
                       THEN Append(@, [textBeforeCursor |->
                                           getTextBeforeCursor(m),
                                       wordFragment |-> word,
                                       returned |-> result])
                       ELSE @,
           !.suggestions = sugg,
           !.showPopup = Len(sugg) > 0,
           !.lastSuggestedWord = word]

\* the branch of updateAutocomplete taken when the fragment is unchanged
keepSuggestionsResetsSelection(m) ==
    IF Len(m.suggestions) = 0 THEN [m EXCEPT !.showPopup = FALSE]
    ELSE [m EXCEPT !.selectedSuggestionIndex = 0]

keepSuggestions(m) ==
    IF Len(m.suggestions) = 0 THEN [m EXCEPT !.showPopup = FALSE]
    ELSE m

\* result is what the AutoCompleteFn returns if this call invokes it
updateAutocomplete(m, result) ==
    IF m.panicked THEN m
    ELSE
    LET word == currentWordFragment(m)
        lineRunes == RunesOf(m.lines[m.cursorRow + 1])
        clear ==
            IF word = <<>> THEN TRUE
            ELSE IF m.cursorCol > 0 /\ m.cursorRow < Len(m.lines)
                THEN IF m.cursorCol <= Len(lineRunes)
                        /\ ~IsWordCharFn(lineRunes[m.cursorCol])
                     THEN TRUE
                     ELSE m.cursorCol > Len(lineRunes)
            ELSE m.cursorCol = 0
    IN  IF clear THEN clearAutocomplete(m)
        ELSE IF word # m.lastSuggestedWord
            THEN regenerateSuggestions(m, word, result)
        ELSE keepSuggestions(m)

navigateAutocompleteUp(m) ==
    IF m.panicked THEN m
    ELSE IF m.showPopup /\ Len(m.suggestions) > 0
    THEN LET idx == m.selectedSuggestionIndex - 1
         IN  IF idx < 0
             THEN [m EXCEPT
                     !.selectedSuggestionIndex = Len(m.suggestions) - 1,
                     !.popupScrollOffset =
                         Max(0, Len(m.suggestions) - PopupMaxHeight)]
             ELSE IF idx < m.popupScrollOffset
             THEN [m EXCEPT !.selectedSuggestionIndex = idx,
                            !.popupScrollOffset = idx]
             ELSE [m EXCEPT !.selectedSuggestionIndex = idx]
    ELSE m

\* navigateAutocompleteDown that forgets to scroll the window down
navigateAutocompleteDownNoScroll(m) ==
    IF m.panicked THEN m
    ELSE IF m.showPopup /\ Len(m.suggestions) > 0
    THEN LET idx == m.selectedSuggestionIndex + 1
         IN  IF idx >= Len(m.suggestions)
             THEN [m EXCEPT !.selectedSuggestionIndex = 0,
                            !.popupScrollOffset = 0]
             ELSE [m EXCEPT !.selectedSuggestionIndex = idx]
    ELSE m

navigateAutocompleteDown(m) ==
    IF m.panicked THEN m
    ELSE IF m.showPopup /\ Len(m.suggestions) > 0
    THEN LET idx == m.selectedSuggestionIndex + 1
         IN  IF idx >= Len(m.suggestions)
             THEN [m EXCEPT !.selectedSuggestionIndex = 0,
                            !.popupScrollOffset = 0]
             ELSE IF idx >= m.popupScrollOffset + PopupMaxHeight
             THEN [m EXCEPT !.selectedSuggestionIndex = idx,
                            !.popupScrollOffset = idx - PopupMaxHeight + 1]
             ELSE [m EXCEPT !.selectedSuggestionIndex = idx]
    ELSE m

applyAutocomplete(m) ==
    IF m.panicked THEN m
    ELSE IF m.showPopup /\ Len(m.suggestions) > 0
    THEN IF m.selectedSuggestionIndex >= Len(m.suggestions)
            \/ m.cursorRow >= Len(m.lines)
         THEN Panic(m)
         ELSE
         LET selectedText == m.suggestions[m.selectedSuggestionIndex + 1].Text
             line == m.lines[m.cursorRow + 1]
             col == m.cursorCol
             runes == RunesOf(line)
         IN  \* runes[start-1] with start = col is out of range
             IF col > Len(runes) THEN Panic(m)
             ELSE
             LET start == ScanLeft(runes, col)
                 prefix == StringOf(Slice(runes, 0, start))
                 suffix == IF col < Len(runes)
                           THEN StringOf(Slice(runes, col, Len(runes)))
                           ELSE <<>>
             IN  clearAutocomplete(
                   [m EXCEPT
                      !.lines[m.cursorRow + 1] =
                          prefix \o selectedText \o suffix,
                      !.cursorCol = start + Len(selectedText)])
    ELSE m

\* -------------------------------------------------------------- line buffer
IsPrintable(r) == r # <<"01">>

\* insertRunes that leaves an active history browse in place
insertRunesKeepsBrowse(m, runes) ==
    IF m.panicked THEN m
    ELSE
    LET printableRunes == SelectSeq(runes, IsPrintable)
    IN  IF Len(printableRunes) = 0 THEN m
        ELSE IF m.cursorRow >= Len(m.lines) THEN Panic(m)
        ELSE LET line == m.lines[m.cursorRow + 1]
             IN  IF m.cursorCol > Len(line) THEN Panic(m)
                 ELSE [m EXCEPT
                         !.lines[m.cursorRow + 1] =
                             Slice(line, 0, m.cursorCol)
                             \o StringOf(printableRunes)
                             \o Slice(line, m.cursorCol, Len(line)),
                         !.cursorCol = @ + Len(printableRunes)]

insertRunes(m, runes) ==
    IF m.panicked THEN m
    ELSE
    LET printableRunes == SelectSeq(runes, IsPrintable)
    IN  IF Len(printableRunes) = 0 THEN m
        ELSE IF m.cursorRow >= Len(m.lines) THEN Panic(m)
        ELSE LET line == m.lines[m.cursorRow + 1]
             IN  IF m.cursorCol > Len(line) THEN Panic(m)
                 ELSE [m EXCEPT
                         !.lines[m.cursorRow + 1] =
                             Slice(line, 0, m.cursorCol)
                             \o StringOf(printableRunes)
                             \o Slice(line, m.cursorCol, Len(line)),
                         !.cursorCol = @ + Len(printableRunes),
                         !.historyIndex = -1]

insertCharacter(m, r) == insertRunes(m, <<r>>)

\* ls with the element at 0-based index i removed
\* a merge that drops the merged line and keeps the one after it
RemoveAtPrev(ls, i) == SubSeq(ls, 1, i - 1) \o SubSeq(ls, i + 1, Len(ls))

RemoveAt(ls, i) == SubSeq(ls, 1, i) \o SubSeq(ls, i + 2, Len(ls))

deleteBeforeCursor(m) ==
    IF m.panicked THEN m
    ELSE IF m.cursorCol > 0
    THEN IF m.cursorRow >= Len(m.lines) THEN Panic(m)
         ELSE LET line == m.lines[m.cursorRow + 1]
              IN  IF m.cursorCol > Len(line) THEN Panic(m)
                  ELSE [m EXCEPT
                          !.lines[m.cursorRow + 1] =
                              Slice(line, 0, m.cursorCol - 1)
                              \o Slice(line, m.cursorCol, Len(line)),
                          !.cursorCol = @ - 1]
    ELSE IF m.cursorRow > 0
    THEN IF m.cursorRow >= Len(m.lines) THEN Panic(m)
         ELSE LET prevLine == m.lines[m.cursorRow]
                  currentLine == m.lines[m.cursorRow + 1]
                  targetCol == Len(prevLine)
                  merged == [m.lines EXCEPT ![m.cursorRow] = @ \o currentLine]
              IN  [m EXCEPT !.lines = RemoveAt(merged, m.cursorRow),
                            !.cursorRow = @ - 1,
                            !.cursorCol = targetCol]
    ELSE m

IsBlank(s) == TrimSpace(s) = <<>>

\* a cleanup that drops one line at most instead of looping
cleanupOneBlankLine(ls) ==
    IF Len(ls) > 1 /\ IsBlank(ls[Len(ls)]) /\ IsBlank(ls[Len(ls) - 1])
    THEN SubSeq(ls, 1, Len(ls) - 1)
    ELSE ls

RECURSIVE cleanupExtraBlankLines(_)
cleanupExtraBlankLines(ls) ==
    IF Len(ls) > 1 /\ IsBlank(ls[Len(ls)]) /\ IsBlank(ls[Len(ls) - 1])
    THEN cleanupExtraBlankLines(SubSeq(ls, 1, Len(ls) - 1))
    ELSE ls

insertNewline(m) ==
    IF m.panicked THEN m
    ELSE IF m.cursorRow >= Len(m.lines) THEN Panic(m)
    ELSE
    LET currentLine == m.lines[m.cursorRow + 1]
    IN  IF m.cursorCol > Len(currentLine) THEN Panic(m)
        ELSE
        LET left == Slice(currentLine, 0, m.cursorCol)
            right == Slice(currentLine, m.cursorCol, Len(currentLine))
            newLines == SubSeq(m.lines, 1, m.cursorRow) \o <<left, right>>
                        \o SubSeq(m.lines, m.cursorRow + 2, Len(m.lines))
            cleaned == cleanupExtraBlankLines(newLines)
            row == m.cursorRow + 1
        IN  IF row >= Len(cleaned) /\ Len(cleaned) > 0
            THEN [m EXCEPT !.lines = cleaned, !.cursorRow = Len(cleaned) - 1,
                           !.cursorCol = 0]
            ELSE IF Len(cleaned) = 0
            THEN [m EXCEPT !.lines = <<<<>>>>, !.cursorRow = 0,
                           !.cursorCol = 0]
            ELSE [m EXCEPT !.lines = cleaned, !.cursorRow = row,
                           !.cursorCol = 0]

moveCursorUp(m) ==
    IF m.panicked THEN m
    ELSE IF m.cursorRow > 0
    THEN IF m.cursorRow - 1 >= Len(m.lines) THEN Panic(m)
         ELSE [m EXCEPT !.cursorRow = @ - 1,
                        !.cursorCol = Min(@, Len(m.lines[m.cursorRow]))]
    ELSE m

\* moveCursorDown that keeps the column on a shorter line
moveCursorDownUnclamped(m) ==
    IF m.panicked THEN m
    ELSE IF m.cursorRow < Len(m.lines) - 1
    THEN [m EXCEPT !.cursorRow = @ + 1]
    ELSE m

moveCursorDown(m) ==
    IF m.panicked THEN m
    ELSE IF m.cursorRow < Len(m.lines) - 1
    THEN [m EXCEPT !.cursorRow = @ + 1,
                   !.cursorCol = Min(@, Len(m.lines[m.cursorRow + 2]))]
    ELSE m

moveCursorLeft(m) ==
    IF m.panicked THEN m
    ELSE IF m.cursorCol > 0 THEN [m EXCEPT !.cursorCol = @ - 1]
    ELSE IF m.cursorRow > 0
    THEN IF m.cursorRow - 1 >= Len(m.lines) THEN Panic(m)
         ELSE [m EXCEPT !.cursorRow = @ - 1,
                        !.cursorCol = Len(m.lines[m.cursorRow])]
    ELSE m

moveCursorRight(m) ==
    IF m.panicked THEN m
    ELSE IF m.cursorRow >= Len(m.lines) THEN Panic(m)
    ELSE IF m.cursorCol < Len(m.lines[m.cursorRow + 1])
    THEN [m EXCEPT !.cursorCol = @ + 1]
    ELSE IF m.cursorRow < Len(m.lines) - 1
    THEN [m EXCEPT !.cursorRow = @ + 1, !.cursorCol = 0]
    ELSE m

\* ------------------------------------------------------------------ history
loadHistoryEntry(m) ==
    IF m.panicked THEN m
    ELSE IF m.historyIndex >= 0 /\ m.historyIndex < Len(m.history)
    THEN LET ls == Split(m.history[m.historyIndex + 1])
             row == Max(Len(ls) - 1, 0)
         IN  IF Len(ls) > 0
             THEN clearAutocomplete(
                    [m EXCEPT !.lines = ls, !.cursorRow = row,
                              !.cursorCol = Len(ls[row + 1])])
             ELSE clearAutocomplete(
                    [m EXCEPT !.lines = <<<<>>>>, !.cursorRow = 0,
                              !.cursorCol = 0])
    ELSE m

\* navigateHistoryUp that starts browsing one past the newest entry
navigateHistoryUpPastEnd(m) ==
    IF m.panicked THEN m
    ELSE IF Len(m.history) = 0 THEN m
    ELSE IF m.historyIndex = -1
    THEN loadHistoryEntry([m EXCEPT !.historyIndex = Len(m.history)])
    ELSE IF m.historyIndex > 0
    THEN loadHistoryEntry([m EXCEPT !.historyIndex = @ - 1])
    ELSE m

\* navigateHistoryUp that loads the oldest entry again when it is already there
navigateHistoryUpReloads(m) ==
    IF m.panicked THEN m
    ELSE IF Len(m.history) = 0 THEN m
    ELSE IF m.historyIndex = -1
    THEN loadHistoryEntry([m EXCEPT !.historyIndex = Len(m.history) - 1])
    ELSE IF m.historyIndex > 0
    THEN loadHistoryEntry([m EXCEPT !.historyIndex = @ - 1])
    ELSE loadHistoryEntry(m)

navigateHistoryUp(m) ==
    IF m.panicked THEN m
    ELSE IF Len(m.history) = 0 THEN m
    ELSE IF m.historyIndex = -1
    THEN loadHistoryEntry([m EXCEPT !.historyIndex = Len(m.history) - 1])
    ELSE IF m.historyIndex > 0
    THEN loadHistoryEntry([m EXCEPT !.historyIndex = @ - 1])
    ELSE m

\* navigateHistoryDown that leaves no line behind when it exits browsing
navigateHistoryDownNoLine(m) ==
    IF m.panicked THEN m
    ELSE IF m.historyIndex = -1 THEN m
    ELSE IF m.historyIndex < Len(m.history) - 1
    THEN loadHistoryEntry([m EXCEPT !.historyIndex = @ + 1])
    ELSE clearAutocomplete(
           [m EXCEPT !.historyIndex = -1, !.lines = <<>>,
                     !.cursorRow = 0, !.cursorCol = 0])

navigateHistoryDown(m) ==
    IF m.panicked THEN m
    ELSE IF m.historyIndex = -1 THEN m
    ELSE IF m.historyIndex < Len(m.history) - 1
    THEN loadHistoryEntry([m EXCEPT !.historyIndex = @ + 1])
    ELSE clearAutocomplete(
           [m EXCEPT !.historyIndex = -1, !.lines = <<<<>>>>,
                     !.cursorRow = 0, !.cursorCol = 0])

\* --------------------------------------------------------------- submission
RECURSIVE joinNonEmptyLines(_)
joinNonEmptyLines(ls) ==
    IF Len(ls) > 0 /\ TrimSpace(ls[Len(ls)]) = <<>>
    THEN joinNonEmptyLines(SubSeq(ls, 1, Len(ls) - 1))
    ELSE Join(ls)

getCurrentInput(m) == joinNonEmptyLines(m.lines)

\* shouldSubmit without the guard against a bare terminator
shouldSubmitBareTerminator(fullInput) == IsCompleteFn(fullInput)

\* the test that sends handleEnter down the submit branch
shouldSubmit(fullInput) ==
    IsCompleteFn(fullInput) /\ TrimSpace(fullInput) # <<";">>

\* the submit branch: run the ExecuteFn, if one is configured
executeWithoutPlaceholder(m, fullInput) ==
    IF config.ExecuteFn
    THEN [m EXCEPT !.execCalls = Append(@, fullInput),
                   !.lastOutput = <<"--- Executing ---",
                                    ExecuteFnResult(fullInput)>>]
    ELSE m

execute(m, fullInput) ==
    IF config.ExecuteFn
    THEN [m EXCEPT !.execCalls = Append(@, fullInput),
                   !.lastOutput = <<"--- Executing ---",
                                    ExecuteFnResult(fullInput)>>]
    ELSE [m EXCEPT !.lastOutput = <<"--- No ExecuteFn Configured ---">>]

\* record that also stores whitespace-only input
recordAlways(m, fullInput) == [m EXCEPT !.history = Append(@, fullInput)]

\* record that puts the newest command first
recordPrepend(m, fullInput) ==
    IF TrimSpace(fullInput) # <<>>
    THEN [m EXCEPT !.history = <<fullInput>> \o @]
    ELSE m

\* the submit branch: add the command to the history
record(m, fullInput) ==
    IF TrimSpace(fullInput) # <<>>
    THEN [m EXCEPT !.history = Append(@, fullInput)]
    ELSE m

\* resetInput that stays in history browsing mode
resetInputKeepsBrowse(m) ==
    clearAutocomplete([m EXCEPT !.lines = <<<<>>>>, !.cursorRow = 0,
                                !.cursorCol = 0])

\* the submit branch: reset the input state for the next command
resetInput(m) ==
    clearAutocomplete([m EXCEPT !.lines = <<<<>>>>, !.cursorRow = 0,
                                !.cursorCol = 0, !.historyIndex = -1])

handleEnter(m) ==
    IF m.panicked THEN m
    ELSE LET fullInput == getCurrentInput(m)
         IN  IF shouldSubmit(fullInput)
             THEN resetInput(record(execute(m, fullInput), fullInput))
             ELSE clearAutocomplete(insertNewline(m))

\* a Backspace that also leaves history browsing
handleBackspaceCancelsBrowse(m) ==
    [deleteBeforeCursor(m) EXCEPT !.historyIndex = -1]

handleBackspace(m) == deleteBeforeCursor(m)

handleAutocompleteTab(m) == applyAutocomplete(m)

\* handleUpArrow that prefers the history to the popup on the first row
handleUpArrowHistoryFirst(m) ==
    IF m.cursorRow = 0 THEN navigateHistoryUp(m)
    ELSE IF m.showPopup THEN navigateAutocompleteUp(m)
    ELSE moveCursorUp(m)

handleUpArrow(m) ==
    IF m.showPopup THEN navigateAutocompleteUp(m)
    ELSE IF m.cursorRow = 0 THEN navigateHistoryUp(m)
    ELSE moveCursorUp(m)

\* handleDownArrow that navigates the history from the last row only
handleDownArrowAtLastRow(m) ==
    IF m.showPopup THEN navigateAutocompleteDown(m)
    ELSE IF m.historyIndex # -1 /\ m.cursorRow = Len(m.lines) - 1
    THEN navigateHistoryDown(m)
    ELSE moveCursorDown(m)

handleDownArrow(m) ==
    IF m.showPopup THEN navigateAutocompleteDown(m)
    ELSE IF m.historyIndex # -1 THEN navigateHistoryDown(m)
    ELSE moveCursorDown(m)

\* --------------------------------------------------------------- key events
\* a case list that leaves out the Runes key
ClearingKeysWithoutRunes ==
    {"Backspace", "Space", "Up", "Down", "Left", "Right"}

ClearingKeys ==
    {"Backspace", "Runes", "Space", "Up", "Down", "Left", "Right"}

clearLastOutputOnEdit(m, keyType) ==
    IF keyType \in ClearingKeys THEN [m EXCEPT !.lastOutput = <<>>] ELSE m

\* Begin that clears the last output on Enter as well
BeginClearsOnEnter(keyType) ==
    [M EXCEPT !.execCalls = <<>>, !.acCalls = <<>>, !.lastOutput = <<>>]

\* the model as a key event finds it: no callback has run yet in this event
Begin(keyType) ==
    LET m == [M EXCEPT !.execCalls = <<>>, !.acCalls = <<>>]
    IN  IF keyType # "Enter" THEN clearLastOutputOnEdit(m, keyType) ELSE m

\* the runs explored stay within the bounds
Bounded(m) ==
    /\ Len(m.lines) <= MaxLines
    /\ TotalBytes(m.lines) <= MaxBytesOf(env)
    /\ Len(m.history) <= MaxHistOf(env)
    /\ \A i \in 1..Len(m.history) : Len(m.history[i]) <= MaxEntryLen

\* handleKeyPress has turned the model into m
Becomes(m) ==
    /\ ~panicked
    /\ Bounded(m)
    /\ lines' = m.lines
    /\ cursorRow' = m.cursorRow
    /\ cursorCol' = m.cursorCol
    /\ history' = m.history
    /\ historyIndex' = m.historyIndex
    /\ suggestions' = m.suggestions
    /\ showPopup' = m.showPopup
    /\ selectedSuggestionIndex' = m.selectedSuggestionIndex
    /\ lastSuggestedWord' = m.lastSuggestedWord
    /\ popupScrollOffset' = m.popupScrollOffset
    /\ lastOutput' = m.lastOutput
    /\ execCalls' = m.execCalls
    /\ acCalls' = m.acCalls
    /\ panicked' = m.panicked
    /\ UNCHANGED <<env, config>>

KeyEnter == Becomes(handleEnter(Begin("Enter")))

\* what the AutoCompleteFn may return to updateAutocomplete(m, _); the
\* result is not looked at when no callback is set or the fragment is empty
ResultsFor(m) ==
    IF config.AutoCompleteFn /\ currentWordFragment(m) # <<>>
    THEN SuggestionListsOf(env) ELSE {<<>>}

KeyBackspace ==
    LET m == handleBackspace(Begin("Backspace"))
    IN  \E result \in ResultsFor(m) :
            Becomes(updateAutocomplete(m, result))

KeyTab == Becomes(handleAutocompleteTab(Begin("Tab")))

KeyUp == Becomes(handleUpArrow(Begin("Up")))

KeyDown == Becomes(handleDownArrow(Begin("Down")))

\* a Left key that leaves the suggestion state alone
KeyLeftKeepsPopup == Becomes(moveCursorLeft(Begin("Left")))

KeyLeft == Becomes(clearAutocomplete(moveCursorLeft(Begin("Left"))))

\* a Right key that leaves the suggestion state alone
KeyRightKeepsPopup == Becomes(moveCursorRight(Begin("Right")))

KeyRight ==
    Becomes(clearAutocomplete(moveCursorRight(Begin("Right"))))

KeySpace ==
    LET m == insertCharacter(Begin("Space"), <<" ">>)
    IN  \E result \in ResultsFor(m) :
            Becomes(updateAutocomplete(m, result))

KeyRunesOf(runes) ==
    LET m == insertRunes(Begin("Runes"), runes)
    IN  \E result \in ResultsFor(m) :
            Becomes(updateAutocomplete(m, result))

KeyRunes == \E runes \in TypedRunes(env) : KeyRunesOf(runes)

\* NewPromptModel
Init ==
    /\ env \in Envs
    /\ config \in Configs(env)
    /\ lines = <<<<>>>>
    /\ cursorRow = 0
    /\ cursorCol = 0
    /\ history = <<>>
    /\ historyIndex = -1
    /\ suggestions = <<>>
    /\ showPopup = FALSE
    /\ selectedSuggestionIndex = 0
    /\ lastSuggestedWord = <<>>
    /\ popupScrollOffset = 0
    /\ lastOutput = <<>>
    /\ execCalls = <<>>
    /\ acCalls = <<>>
    /\ panicked = FALSE

Next ==
    \/ KeyEnter
    \/ KeyBackspace
    \/ KeyTab
    \/ KeyUp
    \/ KeyDown
    \/ KeyLeft
    \/ KeyRight
    \/ KeySpace
    \/ KeyRunes

Spec == Init /\ [][Next]_vars

\* ------------------------------------------------------------ properties
\* the buffer content handed to IsCompleteFn and ExecuteFn on Enter
Input == getCurrentInput(M)

\* the suggestion set is fully cleared
Cleared ==
    /\ suggestions = <<>>
    /\ ~showPopup
    /\ selectedSuggestionIndex = 0
    /\ popupScrollOffset = 0
    /\ lastSuggestedWord = <<>>

\* the buffer is a single empty line with the cursor at the origin
BufferReset == lines = <<<<>>>> /\ cursorRow = 0 /\ cursorCol = 0

\* This step split the cursor line at the cursor and moved the cursor to
\* the start of the new line; of the result only trailing whitespace-only
\* lines were dropped, and none when the last two lines were not both
\* whitespace-only.
NewlineInserted ==
    LET line == lines[cursorRow + 1]
        split == SubSeq(lines, 1, cursorRow)
                 \o <<Slice(line, 0, cursorCol),
                      Slice(line, cursorCol, Len(line))>>
                 \o SubSeq(lines, cursorRow + 2, Len(lines))
        n == Len(split)
    IN  /\ Len(lines') >= 1
        /\ Len(lines') <= n
        /\ lines' = SubSeq(split, 1, Len(lines'))
        /\ \A i \in (Len(lines') + 1)..n : IsBlank(split[i])
        /\ ~(IsBlank(split[n]) /\ IsBlank(split[n - 1])) => lines' = split
        /\ cursorCol' = 0
        /\ cursorRow' = Min(cursorRow + 1, Len(lines') - 1)

\* C1: the buffer is never empty: lines holds at least one line in every
\* state reachable by key events.
C1_LinesNonEmpty == Len(lines) >= 1

\* a history entry has been loaded into the buffer
C1_Witness == historyIndex >= 0 /\ Len(lines) = 1 /\ lines[1] # <<>>

\* C2: the cursor is valid in every reachable state: cursorRow indexes a
\* line and cursorCol is at most the number of codepoints of that line.
C2_CursorValidCodepoints ==
    /\ 0 <= cursorRow
    /\ cursorRow < Len(lines)
    /\ 0 <= cursorCol
    /\ cursorCol <= Len(RunesOf(lines[cursorRow + 1]))

\* C3 (as stated): an Enter on complete input other than a bare ";" calls
\* the ExecuteFn exactly once with the input, appends the input to the
\* history, resets the buffer, leaves browsing and clears the suggestions;
\* no other event calls the ExecuteFn.
C3_Original ==
    [][ /\ (KeyEnter /\ IsCompleteFn(Input) /\ TrimSpace(Input) # <<";">>)
           => /\ execCalls' = <<Input>>
              /\ history' = Append(history, Input)
              /\ BufferReset'
              /\ historyIndex' = -1
              /\ Cleared'
        /\ execCalls' # <<>>
           => KeyEnter /\ IsCompleteFn(Input) /\ TrimSpace(Input) # <<";">>
      ]_vars

\* C3 (amended): an Enter on complete input other than a bare ";" calls
\* the ExecuteFn, when one is configured, exactly once with the input,
\* appends the input to the history unless it is whitespace-only, resets
\* the buffer, leaves browsing and clears the suggestions; no other event
\* calls the ExecuteFn.
C3_Submit ==
    [][ /\ (KeyEnter /\ IsCompleteFn(Input) /\ TrimSpace(Input) # <<";">>)
           => /\ execCalls' = IF config.ExecuteFn THEN <<Input>> ELSE <<>>
              /\ history' = IF TrimSpace(Input) # <<>>
                            THEN Append(history, Input) ELSE history
              /\ BufferReset'
              /\ historyIndex' = -1
              /\ Cleared'
        /\ execCalls' # <<>>
           => KeyEnter /\ IsCompleteFn(Input) /\ TrimSpace(Input) # <<";">>
      ]_vars

\* the ExecuteFn has just run on the command that is now the newest entry
C3_Witness ==
    /\ execCalls # <<>>
    /\ history # <<>>
    /\ history[Len(history)] = execCalls[1]
    /\ BufferReset

\* C4: an Enter on input the IsCompleteFn rejects calls no ExecuteFn,
\* leaves the history and the last output alone, inserts a newline at the
\* cursor and clears the suggestions.
C4_IncompleteEnter ==
    [][ (KeyEnter /\ ~IsCompleteFn(Input))
        => /\ execCalls' = <<>>
           /\ history' = history
           /\ lastOutput' = lastOutput
           /\ NewlineInserted
           /\ Cleared'
      ]_vars

\* "a" with the cursor at its end has been split into "a" and an empty line
C4_Witness ==
    /\ lines = <<<<"a">>, <<>>>>
    /\ cursorRow = 1
    /\ cursorCol = 0
    /\ history = <<>>

\* C5: an Enter on input the IsCompleteFn accepts but that trims to a bare
\* ";" calls no ExecuteFn and appends nothing to the history.
C5_BareTerminatorNotRun ==
    [][ (KeyEnter /\ IsCompleteFn(Input) /\ TrimSpace(Input) = <<";">>)
        => execCalls' = <<>> /\ history' = history
      ]_vars

\* Enter was pressed at the end of a bare ";"
C5_Witness ==
    /\ lines = <<<<";">>, <<>>>>
    /\ cursorRow = 1
    /\ lastOutput = <<>>
    /\ history = <<>>

\* C6 (as stated): an Enter on a bare ";" that the IsCompleteFn accepts
\* resets the buffer to a single empty line with the cursor at the origin.
C6_Original ==
    [][ (KeyEnter /\ IsCompleteFn(Input) /\ TrimSpace(Input) = <<";">>)
        => BufferReset'
      ]_vars

\* C6 (amended): an Enter on a bare ";" that the IsCompleteFn accepts takes
\* the newline path: a newline is inserted at the cursor, the buffer is not
\* reset, and browsing is not left.
C6_BareTerminatorNewline ==
    [][ (KeyEnter /\ IsCompleteFn(Input) /\ TrimSpace(Input) = <<";">>)
        => /\ NewlineInserted
           /\ ~BufferReset'
           /\ historyIndex' = historyIndex
      ]_vars

\* Enter was pressed at the start of a bare ";"
C6_Witness ==
    /\ lines = <<<<>>, <<";">>>>
    /\ cursorRow = 1
    /\ cursorCol = 0
    /\ history = <<>>

\* C7: an Enter on a buffer whose lines are all whitespace-only leaves the
\* history as it is, whatever the IsCompleteFn answers.
C7_BlankNeverRecorded ==
    [][ (KeyEnter /\ \A i \in 1..Len(lines) : IsBlank(lines[i]))
        => history' = history
      ]_vars

\* an IsCompleteFn that accepts blank input has had the empty input run
C7_Witness ==
    /\ config.IsCompleteFn = "Always"
    /\ execCalls = <<<<>>>>
    /\ history = <<>>

\* C8: the history is append-only: every event leaves the old history as a
\* prefix of the new one, adds at most one entry, and only Enter adds one.
C8_HistoryAppendOnly ==
    [][ /\ Len(history') >= Len(history)
        /\ Len(history') <= Len(history) + 1
        /\ SubSeq(history', 1, Len(history)) = history
        /\ history' # history => KeyEnter
      ]_vars

\* two different commands have been recorded
C8_Witness == Len(history) = 2 /\ history[1] # history[2]

\* C9: historyIndex is -1 or an index into history.
C9_BrowseIndexValid ==
    historyIndex = -1 \/ (0 <= historyIndex /\ historyIndex < Len(history))

\* browsing has gone up to the oldest of two entries
C9_Witness == historyIndex = 0 /\ Len(history) = 2

\* C10: while the popup is visible the selected suggestion lies inside the
\* scroll window.
C10_SelectionInWindow ==
    showPopup
    => /\ popupScrollOffset <= selectedSuggestionIndex
       /\ selectedSuggestionIndex < popupScrollOffset + PopupMaxHeight

\* the window has scrolled down to keep the last suggestion in view
C10_Witness ==
    /\ showPopup
    /\ popupScrollOffset > 0
    /\ selectedSuggestionIndex = popupScrollOffset + PopupMaxHeight - 1

\* ------------------------------------------------- insertion and deletion
\* texts of printable codepoints, single-byte and multi-byte
InsertedTexts ==
    { <<<<"a">>>>, <<<<";">>>>, <<<<"a">>, <<";">>>>, <<eAcute>>,
      <<<<"a">>, eAcute>> }

\* n calls of deleteBeforeCursor
RECURSIVE DeleteTimes(_, _)
DeleteTimes(m, n) ==
    IF n = 0 THEN m ELSE DeleteTimes(deleteBeforeCursor(m), n - 1)

\* C11: in every reachable buffer state, inserting a text of n >= 1 printable
\* codepoints and then deleting before the cursor n times restores lines and
\* the cursor position.
C11_InsertDeleteInverse ==
    \A c \in InsertedTexts :
        LET m == DeleteTimes(insertRunes(M, c), Len(c))
        IN  /\ ~m.panicked
            /\ m.lines = lines
            /\ m.cursorRow = cursorRow
            /\ m.cursorCol = cursorCol

\* C12: in a buffer of one line that is not whitespace-only, for every cursor
\* column, insertNewline followed by deleteBeforeCursor gives back the
\* original line as the only line.
C12_NewlineMergeInverse ==
    (Len(lines) = 1 /\ ~IsBlank(lines[1]))
    => \A col \in 0..Len(lines[1]) :
           LET m == deleteBeforeCursor(
                        insertNewline([M EXCEPT !.cursorCol = col]))
           IN  ~m.panicked /\ m.lines = lines

\* the cursor stands between two different bytes of the only line, and the
\* newline splits the line in two before the merge joins it again
C12_Witness ==
    /\ lines = << <<"a", ";">> >>
    /\ cursorCol = 1
    /\ insertNewline(M).lines = << <<"a">>, <<";">> >>
    /\ deleteBeforeCursor(insertNewline(M)).lines = lines

\* --------------------------------------------------------- word fragment
\* where the maximal run of word characters that ends at codepoint column
\* col begins
WordRunStart(runes, col) ==
    CHOOSE s \in 0..col :
        /\ \A i \in (s + 1)..col : IsWordCharFn(runes[i])
        /\ s = 0 \/ ~IsWordCharFn(runes[s])

\* C13: for every line and cursor column, currentWordFragment is the maximal
\* run of word characters ending left of the cursor; it is empty at column
\* 0, after a codepoint that is not a word character, and past the line's
\* codepoint length.
C13_FragmentIsMaximalRun ==
    \A row \in 0..(Len(lines) - 1) :
        LET runes == RunesOf(lines[row + 1])
        IN  \A col \in 0..(Len(lines[row + 1]) + 1) :
                LET m == [M EXCEPT !.cursorRow = row, !.cursorCol = col]
                    fragment == currentWordFragment(m)
                IN  IF col = 0 \/ col > Len(runes)
                       \/ ~IsWordCharFn(runes[col])
                    THEN fragment = <<>>
                    ELSE fragment
                         = StringOf(Slice(runes, WordRunStart(runes, col),
                                          col))

\* the fragment is two codepoints long and starts after a codepoint that is
\* not a word character
C13_Witness ==
    /\ cursorCol = 3
    /\ ~IsWordCharFn(RunesOf(lines[cursorRow + 1])[1])
    /\ currentWordFragment(M) = <<"a", "a">>

\* ---------------------------------------------------- applying a suggestion
\* C14: Tab with the popup visible and suggestions present replaces the
\* codepoints from the start of the word run ending at the cursor up to the
\* cursor by the selected suggestion's text, keeps the codepoints before and
\* after that span and all other lines, puts the cursor at column start plus
\* the codepoint length of the text, and clears the suggestion set.
C14_ApplyReplacesSpan ==
    [][ (KeyTab /\ showPopup /\ Len(suggestions) > 0)
        => LET runes == RunesOf(lines[cursorRow + 1])
               start == WordRunStart(runes, cursorCol)
               text == suggestions[selectedSuggestionIndex + 1].Text
           IN  /\ lines' = [lines EXCEPT ![cursorRow + 1] =
                               StringOf(Slice(runes, 0, start)) \o text
                               \o StringOf(Slice(runes, cursorCol,
                                                 Len(runes)))]
               /\ cursorRow' = cursorRow
               /\ cursorCol' = start + Len(RunesOf(text))
               /\ Cleared'
      ]_vars

\* -------------------------------------------------------- history browsing
\* the buffer shows the history entry at historyIndex: its lines, with the
\* cursor at the end of the last line (a column in codepoints)
EntryLoaded ==
    /\ lines = Split(history[historyIndex + 1])
    /\ cursorRow = Len(lines) - 1
    /\ cursorCol = Len(RunesOf(lines[Len(lines)]))

\* C15: with entries in the history, browsing up from outside browsing loads
\* the newest entry and each further step up the next older one down to
\* entry 0; browsing down loads the next newer entry, and from the newest
\* entry leaves browsing with an empty buffer. After a load the buffer is
\* the entry split on newlines with the cursor at the end of the last line.
C15_BrowseOrder ==
    [][ /\ (KeyUp /\ ~showPopup /\ cursorRow = 0 /\ Len(history) >= 1)
           => IF historyIndex = -1
              THEN historyIndex' = Len(history) - 1 /\ EntryLoaded'
              ELSE historyIndex > 0
                   => historyIndex' = historyIndex - 1 /\ EntryLoaded'
        /\ (KeyDown /\ ~showPopup /\ historyIndex # -1)
           => IF historyIndex < Len(history) - 1
              THEN historyIndex' = historyIndex + 1 /\ EntryLoaded'
              ELSE historyIndex' = -1 /\ BufferReset'
      ]_vars

\* ------------------------------------------------ typing while browsing
\* C16 as stated: after any Runes or Space key event historyIndex is -1.
C16_Original == [][ (KeyRunes \/ KeySpace) => historyIndex' = -1 ]_vars

\* C16: a Space event, and a Runes event that carries at least one printable
\* rune, leaves historyIndex at -1; a Runes event that carries only control
\* characters leaves historyIndex as it was.
C16_TypingCancelsBrowsing ==
    [][ /\ historyIndex' = -1 \/ ~KeySpace
        /\ \A runes \in TypedRunes(env) :
               \/ IF SelectSeq(runes, IsPrintable) # <<>>
                  THEN historyIndex' = -1
                  ELSE historyIndex' = historyIndex
               \/ ~KeyRunesOf(runes)
      ]_vars

\* an entry is being browsed and there is room to type: typing a printable
\* rune ends the browsing, typing a control character does not
C16_Witness ==
    /\ historyIndex >= 0
    /\ Bounded(insertRunes(M, << <<"a">> >>))
    /\ insertRunes(M, << <<"a">> >>).historyIndex = -1
    /\ insertRunes(M, << <<"a">> >>).lines # lines
    /\ insertRunes(M, << <<"01">> >>).historyIndex = historyIndex

\* ------------------------------------------------- the last output shown
\* the Enter event submits the input (the step that sets lastOutput)
Submits == KeyEnter /\ IsCompleteFn(Input) /\ TrimSpace(Input) # <<";">>

\* C17: every key event that changes lines, other than a submission, leaves
\* lastOutput empty (the formula lists the conclusion first).
C17_OutputClearedOnEdit ==
    [][ lastOutput' = <<>> \/ lines' = lines \/ Submits ]_vars

\* an input was submitted and the buffer has been edited since: the output
\* of the submission is no longer shown
C17_Witness ==
    /\ Len(history) >= 1
    /\ execCalls = <<>>
    /\ historyIndex = -1
    /\ lines[1] # <<>>
    /\ lastOutput = <<>>

\* ---------------------------------------------------------- vertical keys
\* C18: with the popup hidden, Up off the first row and Down off the last
\* row move the cursor one row and leave lines and historyIndex unchanged,
\* also while a history entry is being browsed.
C18_VerticalKeysAtEdgeOnly ==
    [][ /\ (KeyUp /\ ~showPopup /\ cursorRow > 0)
           => /\ cursorRow' = cursorRow - 1
              /\ lines' = lines
              /\ historyIndex' = historyIndex
        /\ (KeyDown /\ ~showPopup /\ cursorRow < Len(lines) - 1)
           => /\ cursorRow' = cursorRow + 1
              /\ lines' = lines
              /\ historyIndex' = historyIndex
      ]_vars

\* -------------------------------------------------- suggestion regeneration
\* the models updateAutocomplete is called with in the current state: after
\* the deletion of a Backspace event and after the insertion of a Space or
\* Runes event
UpdateInputs ==
    { handleBackspace(Begin("Backspace")),
      insertCharacter(Begin("Space"), <<" ">>) }
    \cup { insertRunes(Begin("Runes"), runes) : runes \in TypedRunes(env) }

\* updateAutocomplete(m, _) runs with a non-empty fragment that differs
\* from lastSuggestedWord
FragmentChanged(m) ==
    /\ ~m.panicked
    /\ currentWordFragment(m) # <<>>
    /\ currentWordFragment(m) # m.lastSuggestedWord

\* n is m with the suggestion state restarted from the list sugg
Restarted(n, m, sugg) ==
    /\ n.suggestions = sugg
    /\ n.showPopup = (Len(sugg) > 0)
    /\ n.selectedSuggestionIndex = 0
    /\ n.popupScrollOffset = 0
    /\ n.lastSuggestedWord = currentWordFragment(m)

\* the one call of the AutoCompleteFn that updateAutocomplete(m, result)
\* makes
ProviderCall(m, result) ==
    [textBeforeCursor |-> getTextBeforeCursor(m),
     wordFragment |-> currentWordFragment(m),
     returned |-> result]

\* C19 as stated: when updateAutocomplete runs with a non-empty fragment
\* other than lastSuggestedWord, the AutoCompleteFn is called once with the
\* text before the cursor and the fragment, and the suggestion state
\* restarts from the list it returns.
C19_Original ==
    \A m \in UpdateInputs :
        FragmentChanged(m)
        => \A result \in ResultsFor(m) :
               LET n == updateAutocomplete(m, result)
               IN  /\ n.acCalls = <<ProviderCall(m, result)>>
                   /\ Restarted(n, m, result)

\* C19: when updateAutocomplete runs with a non-empty fragment other than
\* lastSuggestedWord, the AutoCompleteFn, if one is configured, is called
\* once with the text before the cursor and the fragment, and the suggestion
\* state restarts from the list it returns; with no AutoCompleteFn nothing
\* is called and the suggestion state restarts from the empty list.
C19_RegenerateOnFragmentChange ==
    \A m \in UpdateInputs :
        FragmentChanged(m)
        => \A result \in ResultsFor(m) :
               LET n == updateAutocomplete(m, result)
               IN  IF config.AutoCompleteFn
                   THEN /\ n.acCalls = <<ProviderCall(m, result)>>
                        /\ Restarted(n, m, result)
                   ELSE /\ n.acCalls = <<>>
                        /\ Restarted(n, m, <<>>)

\* a suggestion other than the first is selected for the fragment "a", and
\* typing another "a" calls the AutoCompleteFn for "aa"; its three
\* suggestions are shown with the first one selected
C19_Witness ==
    /\ lastSuggestedWord = <<"a">>
    /\ selectedSuggestionIndex > 0
    /\ LET m == insertRunes(Begin("Runes"), << <<"a">> >>)
           result == << Sugg(<<"a", "a">>), Sugg(<<"a">>), Sugg(eAcute) >>
           n == updateAutocomplete(m, result)
       IN  /\ FragmentChanged(m)
           /\ currentWordFragment(m) = <<"a", "a">>
           /\ result \in ResultsFor(m)
           /\ Bounded(n)
           /\ n.acCalls = <<ProviderCall(m, result)>>
           /\ Restarted(n, m, result)
           /\ n.showPopup

\* updateAutocomplete(m, _) runs with a non-empty fragment equal to
\* lastSuggestedWord
FragmentStable(m) ==
    /\ ~m.panicked
    /\ currentWordFragment(m) # <<>>
    /\ currentWordFragment(m) = m.lastSuggestedWord

\* C20: when updateAutocomplete runs with a non-empty fragment equal to
\* lastSuggestedWord, the AutoCompleteFn is not called and suggestions,
\* selectedSuggestionIndex, popupScrollOffset and lastSuggestedWord stay as
\* they are; showPopup stays too, or becomes false when there are no
\* suggestions.
C20_StableFragment ==
    \A m \in UpdateInputs :
        FragmentStable(m)
        => \A result \in SuggestionListsOf(env) :
               LET n == updateAutocomplete(m, result)
               IN  /\ n.acCalls = <<>>
                   /\ n.suggestions = m.suggestions
                   /\ n.selectedSuggestionIndex = m.selectedSuggestionIndex
                   /\ n.popupScrollOffset = m.popupScrollOffset
                   /\ n.lastSuggestedWord = m.lastSuggestedWord
                   /\ \/ n.showPopup = m.showPopup
                      \/ m.suggestions = <<>> /\ ~n.showPopup

\* a suggestion other than the first is selected, and a Runes event that
\* carries only a control character runs updateAutocomplete with the same
\* fragment: the selection stays
C20_Witness ==
    /\ showPopup
    /\ selectedSuggestionIndex > 0
    /\ LET m == insertRunes(Begin("Runes"), << <<"01">> >>)
       IN  /\ FragmentStable(m)
           /\ updateAutocomplete(m, suggestions).selectedSuggestionIndex
              = selectedSuggestionIndex
           /\ updateAutocomplete(m, suggestions) = m

\* ------------------------------------------------- suggestion index ranges
\* C21: while there are suggestions, selectedSuggestionIndex is an index
\* into them and popupScrollOffset lies between 0 and the last offset that
\* still fills the window.
C21_SuggestionIndexRanges ==
    Len(suggestions) > 0
    => /\ 0 <= selectedSuggestionIndex
       /\ selectedSuggestionIndex <= Len(suggestions) - 1
       /\ 0 <= popupScrollOffset
       /\ popupScrollOffset <= Max(0, Len(suggestions) - PopupMaxHeight)

\* the last of three suggestions is selected and the window has scrolled to
\* its last offset
C21_Witness ==
    /\ Len(suggestions) = 3
    /\ selectedSuggestionIndex = Len(suggestions) - 1
    /\ popupScrollOffset = Len(suggestions) - PopupMaxHeight

\* ------------------------------------------------ horizontal cursor keys
\* C22: after a Left or Right key event the suggestion state is fully reset
\* and lines and history are as before, whether the cursor moved or not
\* (the formula lists the conclusion first).
C22_HorizontalKeysClear ==
    [][ \/ Cleared' /\ lines' = lines /\ history' = history
        \/ ~(KeyLeft \/ KeyRight)
      ]_vars

\* the popup is visible with the cursor at the end of the only line, where
\* Right cannot move the cursor and Left can; both keys reset the suggestion
\* state
C22_Witness ==
    /\ showPopup
    /\ lastSuggestedWord # <<>>
    /\ cursorCol = Len(lines[cursorRow + 1])
    /\ LET l == clearAutocomplete(moveCursorLeft(Begin("Left")))
           r == clearAutocomplete(moveCursorRight(Begin("Right")))
       IN  /\ l.cursorCol = cursorCol - 1
           /\ r.cursorCol = cursorCol /\ r.cursorRow = cursorRow
           /\ l.suggestions = <<>> /\ ~l.showPopup
           /\ r.suggestions = <<>> /\ ~r.showPopup
           /\ r.lastSuggestedWord = <<>>

\* ------------------------------------------------- browsing at the oldest
\* C23: when historyIndex is 0, navigateHistoryUp leaves historyIndex, lines
\* and the cursor as they are.
C23_BrowseUpAtOldestNoOp ==
    historyIndex = 0
    => LET n == navigateHistoryUp(M)
       IN  /\ n.historyIndex = historyIndex
           /\ n.lines = lines
           /\ n.cursorRow = cursorRow
           /\ n.cursorCol = cursorCol

\* the oldest entry is being browsed and has been edited; the Up key keeps
\* the edited text
C23_Witness ==
    /\ historyIndex = 0
    /\ ~showPopup
    /\ cursorRow = 0
    /\ lines # Split(history[1])
    /\ handleUpArrow(Begin("Up")).lines = lines

\* --------------------------------------------------- blank-line cleanup
\* C24: right after the insertNewline of an Enter on incomplete input, a
\* buffer of two or more lines does not end in two whitespace-only lines,
\* and cursorRow is a row of the buffer.
C24_BlankLineCleanupBound ==
    ~shouldSubmit(Input)
    => LET n == handleEnter(Begin("Enter"))
       IN  /\ ~n.panicked
           /\ Len(n.lines) >= 2
              => ~(IsBlank(n.lines[Len(n.lines)])
                   /\ IsBlank(n.lines[Len(n.lines) - 1]))
           /\ 0 <= n.cursorRow /\ n.cursorRow < Len(n.lines)

\* the buffer ends in one empty line with the cursor on it; an Enter adds a
\* second one, which the cleanup removes again
C24_Witness ==
    /\ lines = << <<"a">>, <<>> >>
    /\ cursorRow = 1
    /\ ~shouldSubmit(Input)
    /\ handleEnter(Begin("Enter")).lines = lines
    /\ handleEnter(Begin("Enter")).cursorRow = 1

\* ------------------------------------------------------ missing callbacks
\* what is shown after a submission when no ExecuteFn is configured
NoExecuteFnPlaceholder == <<"--- No ExecuteFn Configured ---">>

\* C25 as stated: without an AutoCompleteFn there are never suggestions nor
\* a popup; without an ExecuteFn a submission calls nothing, shows the
\* placeholder, appends the input to the history and resets the buffer.
C25_Original ==
    /\ [](~config.AutoCompleteFn => suggestions = <<>> /\ ~showPopup)
    /\ [][ \/ config.ExecuteFn
           \/ /\ execCalls' = <<>>
              /\ lastOutput' = NoExecuteFnPlaceholder
              /\ history' = Append(history, Input)
              /\ BufferReset'
           \/ ~Submits
         ]_vars

\* C25: without an AutoCompleteFn there are never suggestions nor a popup;
\* without an ExecuteFn a submission calls nothing, shows the placeholder,
\* appends the input to the history unless it is whitespace-only, and resets
\* the buffer (the formula lists the conclusion before the key event).
C25_MissingCallbacks ==
    /\ [](~config.AutoCompleteFn => suggestions = <<>> /\ ~showPopup)
    /\ [][ \/ config.ExecuteFn
           \/ /\ execCalls' = <<>>
              /\ lastOutput' = NoExecuteFnPlaceholder
              /\ history' = IF TrimSpace(Input) # <<>>
                            THEN Append(history, Input) ELSE history
              /\ BufferReset'
           \/ ~Submits
         ]_vars

\* with neither callback configured an input has been submitted: the
\* placeholder is shown, the input is in the history, the buffer is empty
\* and there are no suggestions
C25_Witness ==
    /\ ~config.ExecuteFn
    /\ ~config.AutoCompleteFn
    /\ lastOutput = NoExecuteFnPlaceholder
    /\ history = << <<"a", ";">> >>
    /\ BufferReset
    /\ suggestions = <<>>

\* ------------------------------------------------------------ no panics
\* C26: no operation panics: cursorRow is a row of the buffer, cursorCol is
\* at most the byte length that insertRunes, deleteBeforeCursor and
\* insertNewline slice the line with, and while the popup is visible
\* applyAutocomplete finds selectedSuggestionIndex inside suggestions and
\* cursorCol inside the runes of the line.
C26_NeverPanics ==
    /\ ~panicked
    /\ 0 <= cursorRow /\ cursorRow < Len(lines)
    /\ 0 <= cursorCol /\ cursorCol <= Len(lines[cursorRow + 1])
    /\ (showPopup /\ Len(suggestions) > 0)
       => /\ 0 <= selectedSuggestionIndex
          /\ selectedSuggestionIndex < Len(suggestions)
          /\ cursorCol <= Len(RunesOf(lines[cursorRow + 1]))

\* the cursor column exceeds the number of codepoints of a line with a
\* multi-byte character, and typing, deleting and splitting there stay
\* within the bytes of the line
C26_Witness ==
    /\ cursorCol > Len(RunesOf(lines[cursorRow + 1]))
    /\ ~insertRunes(M, <<eAcute>>).panicked
    /\ ~deleteBeforeCursor(M).panicked
    /\ ~insertNewline(M).panicked
    /\ ~applyAutocomplete(M).panicked

\* ------------------------------------------------------ popup consistency
\* C27: while the popup is visible there are suggestions, and
\* lastSuggestedWord is the non-empty word fragment left of the cursor.
C27_PopupConsistent ==
    showPopup
    => /\ Len(suggestions) > 0
       /\ lastSuggestedWord # <<>>
       /\ lastSuggestedWord = currentWordFragment(M)

\* the popup is visible for a fragment of two codepoints that does not start
\* the line
C27_Witness ==
    /\ showPopup
    /\ cursorCol = 3
    /\ lastSuggestedWord = <<"a", "a">>
    /\ currentWordFragment(M) = <<"a", "a">>

\* C28: while the popup is visible an Up or Down key event changes
\* selectedSuggestionIndex and popupScrollOffset only, apart from clearing
\* lastOutput: the buffer, the cursor, the history, historyIndex, the
\* suggestions and lastSuggestedWord stay (the formula lists the conclusion
\* before the key events).
C28_PopupNavigationFramed ==
    [][ \/ ~showPopup
        \/ /\ lines' = lines
           /\ cursorRow' = cursorRow
           /\ cursorCol' = cursorCol
           /\ history' = history
           /\ historyIndex' = historyIndex
           /\ suggestions' = suggestions
           /\ lastSuggestedWord' = lastSuggestedWord
           /\ showPopup'
           /\ lastOutput' = <<>>
        \/ ~(KeyUp \/ KeyDown)
      ]_vars

\* the popup is visible on the first row while a history entry is being
\* browsed and another entry is older; Up and Down move the selection and
\* leave the entry in the buffer
C28_Witness ==
    /\ showPopup
    /\ cursorRow = 0
    /\ historyIndex = 1
    /\ Len(suggestions) = 3
    /\ handleUpArrow(Begin("Up")).selectedSuggestionIndex
       # selectedSuggestionIndex
    /\ handleUpArrow(Begin("Up")).lines = lines
    /\ handleDownArrow(Begin("Down")).historyIndex = historyIndex
    /\ handleDownArrow(Begin("Down")).selectedSuggestionIndex
       # selectedSuggestionIndex

\* -------------------------------------------------- the browse index frame
\* C30: historyIndex changes only on an Up or Down key event with the popup
\* hidden, on a Space event or a Runes event that carries a printable rune,
\* and on a submission; every other key event leaves it as it is (the
\* formula lists the conclusion before the key events).
C30_BrowseIndexFrame ==
    [][ \/ historyIndex' = historyIndex
        \/ ~showPopup /\ (KeyUp \/ KeyDown)
        \/ KeySpace
        \/ \E runes \in TypedRunes(env) :
               SelectSeq(runes, IsPrintable) # <<>> /\ KeyRunesOf(runes)
        \/ Submits
      ]_vars

\* a browsed history entry has been edited and is still being browsed;
\* another Backspace keeps it so
C30_Witness ==
    /\ historyIndex >= 0
    /\ lines # Split(history[historyIndex + 1])
    /\ handleBackspace(Begin("Backspace")).lines # lines
    /\ handleBackspace(Begin("Backspace")).historyIndex = historyIndex

\* ------------------------------------------------- history entries
\* the last line of a history entry
LastLineOf(entry) == Split(entry)[Len(Split(entry))]

\* a history entry with text other than a bare ";" and a last line that is
\* not whitespace-only
WellFormedEntry(entry) ==
    /\ TrimSpace(entry) # <<>>
    /\ TrimSpace(entry) # <<";">>
    /\ ~IsBlank(LastLineOf(entry))

\* C29: every history entry, and every entry the next Enter stores, has a
\* non-empty trimmed form other than ";" and a last line that is not
\* whitespace-only; loading an entry gives a buffer whose last line is not
\* blank.
C29_HistoryEntriesWellFormed ==
    /\ \A i \in 1..Len(history) :
           /\ WellFormedEntry(history[i])
           /\ LET n == loadHistoryEntry([M EXCEPT !.historyIndex = i - 1])
              IN  Len(n.lines) >= 1 /\ ~IsBlank(n.lines[Len(n.lines)])
    /\ LET n == handleEnter(Begin("Enter"))
       IN  \A i \in 1..Len(n.history) : WellFormedEntry(n.history[i])

\* ---------------------------------------------- leaving browsing downward
\* the model after k consecutive Down key events, starting from m
RECURSIVE DownTimes(_, _)
DownTimes(m, k) ==
    IF k = 0 THEN m
    ELSE handleDownArrow(
             clearLastOutputOnEdit(
                 [DownTimes(m, k - 1) EXCEPT !.execCalls = <<>>,
                                             !.acCalls = <<>>],
                 "Down"))

\* C31: in every reachable state with historyIndex = i other than -1 and the
\* popup hidden, consecutive Down key events raise historyIndex by one each
\* and the event number Len(history) - i leaves browsing with the buffer a
\* single empty line and the cursor at the origin.
C31_BrowsingEndsDownward ==
    (historyIndex # -1 /\ ~showPopup)
    => \A k \in 1..(Len(history) - historyIndex) :
           LET n == DownTimes(M, k)
           IN  /\ ~n.panicked
               /\ Bounded(n)
               /\ IF k < Len(history) - historyIndex
                  THEN n.historyIndex = historyIndex + k
                  ELSE /\ n.historyIndex = -1
                       /\ n.lines = << <<>> >>
                       /\ n.cursorRow = 0
                       /\ n.cursorCol = 0

\* the older of two entries is being browsed, edited into two lines with
\* the cursor on the first; one Down loads the newer entry and the second
\* leaves browsing with an empty buffer
C31_Witness ==
    /\ historyIndex = 0
    /\ Len(history) = 2
    /\ ~showPopup
    /\ cursorRow < Len(lines) - 1
    /\ DownTimes(M, 1).historyIndex = 1
    /\ DownTimes(M, 1).lines = Split(history[2])
    /\ DownTimes(M, 2).historyIndex = -1
    /\ DownTimes(M, 2).lines = << <<>> >>
====
